---- MODULE Spec2Model ----
(***************************************************************************)
(* Model of nwb_datajoint/common/common_ephys.py: the ElectrodeSortingInfo *)
(* reconciling operations, LFPElectrode.set_lfp_electrodes, the            *)
(* ElectrodeConfig, Unit, Raw and LFP import routines and the prb export,  *)
(* over a small relational store.                                          *)
(***************************************************************************)
EXTENDS Integers, Sequences, FiniteSets, TLC

VARIABLES Electrode,             \* ElectrodeConfig.Electrode rows
          ProbeElectrode,        \* Probe.Electrode rows
          ElectrodeSortingInfo,  \* ElectrodeSortingInfo rows
          LFPElectrode,          \* LFPElectrode rows (primary keys)
          IntervalList,          \* IntervalList rows
          Raw,                   \* Raw rows
          FirFilter,             \* FirFilter rows
          LFP,                   \* LFP rows
          linkedFiles,           \* files created by LinkedNwbfile().create
          prbFiles,              \* prb files on disk, with their content
          openHandles,           \* file handles opened and not closed
          ElectrodeConfig,       \* ElectrodeConfig rows (file names)
          ElectrodeGroup,        \* ElectrodeConfig.ElectrodeGroup rows
          BrainRegion,           \* BrainRegion rows
          Unit,                  \* Unit rows
          last                   \* the operation that has just returned

inputs == <<Electrode, ProbeElectrode, FirFilter>>
sorting == <<ElectrodeSortingInfo>>
lfp == <<LFPElectrode, IntervalList, Raw, LFP, linkedFiles>>
files == <<prbFiles, openHandles>>
config == <<ElectrodeConfig, ElectrodeGroup, BrainRegion>>
units == <<Unit>>
vars == <<inputs, sorting, lfp, files, config, units, last>>

----------------------------------------------------------------------------
(* Bounds *)

NumElectrodes == 2        \* electrodes 0..NumElectrodes-1 of file "f"
NumOtherElectrodes == 1   \* electrodes of file "g"
NumShankElectrodes == 3   \* electrodes of file "f" in the grouping specification
MaxGroup == 2             \* electrode group names 1..MaxGroup (in np.unique order)
MaxShank == 1             \* probe shanks 0..MaxShank
MaxListLen == 2           \* length of elect_ref_list
MaxUnits == 2             \* units of a source file

Files == {"f", "g"}
Sessions == {"f"}         \* the session whose data is imported and exported
FileRank == [x \in Files |-> IF x = "f" THEN 1 ELSE 2]
RefValues == {-1, -2}     \* references an update list names: none, common median
OrigRefs == {-1}          \* original_reference_electrode: the default of the definition
RawRates == {59999, 40000} \* estimated sampling rates of the raw data, in half hertz
FilterRates == {30000, 20000}    \* sampling rates the filters were designed for

----------------------------------------------------------------------------
(* The store *)

PrimaryKey(r) == <<r.nwb_file_name, r.electrode_id>>

KeyLess(a, b) ==
    \/ FileRank[a.nwb_file_name] < FileRank[b.nwb_file_name]
    \/ /\ a.nwb_file_name = b.nwb_file_name
       /\ a.electrode_id < b.electrode_id

\* fetch(): the rows of a query as an array, in primary-key order
RECURSIVE fetch(_)
fetch(rows) ==
    IF rows = {} THEN <<>>
    ELSE LET m == CHOOSE r \in rows : \A o \in rows \ {r} : KeyLess(r, o)
         IN  <<m>> \o fetch(rows \ {m})

\* a restriction that is not applied
RestrictNothing(table, f) == table

\* table & {'nwb_file_name': f}
RestrictFile(table, f) == {r \in table : r.nwb_file_name = f}

\* ElectrodeConfig.Electrode() & {'nwb_file_name': f} & {'bad_channel': 'False'}
GoodElectrodes(electrode, f) ==
    {r \in RestrictFile(electrode, f) : r.bad_channel = "False"}

\* np.unique: the sorted distinct values
RECURSIVE np_unique(_)
np_unique(S) ==
    IF S = {} THEN <<>>
    ELSE LET m == CHOOSE x \in S : \A y \in S : x <= y
         IN  <<m>> \o np_unique(S \ {m})

SeqToSet(s) == {s[i] : i \in 1..Len(s)}

\* an insert with skip_duplicates=True: rows whose key exists are dropped
insert_replace_skipping(table, rows) ==
    table \cup {r \in SeqToSet(rows) :
                  \A o \in table : PrimaryKey(o) # PrimaryKey(r)}

\* an insert into the emptied table
insert_replace_emptied(table, rows) == SeqToSet(rows)

\* self.insert(rows, replace="True"): a row replaces the stored row of its key
insert_replace(table, rows) ==
    {o \in table : \A r \in SeqToSet(rows) : PrimaryKey(o) # PrimaryKey(r)}
        \cup SeqToSet(rows)

----------------------------------------------------------------------------
(* dj_helper_fn.dj_replace: keyed record reconciliation *)

\* position of the last pair of U whose key is key, 0 if none
LastMatch(U, key) ==
    LET idx == {j \in 1..Len(U) : U[j][1] = key}
    IN  IF idx = {} THEN 0 ELSE CHOOSE j \in idx : \A o \in idx : o <= j

dj_replace(E, U, key_field, value_field) ==
    IF \E i \in 1..Len(E) : {key_field, value_field} \ DOMAIN E[i] # {}
    THEN [failed |-> TRUE, rows |-> <<>>]
    ELSE [failed |-> FALSE,
          rows |-> [i \in 1..Len(E) |->
                      LET j == LastMatch(U, E[i][key_field])
                      IN  IF j = 0 THEN E[i]
                          ELSE [E[i] EXCEPT ![value_field] = U[j][2]]]]

----------------------------------------------------------------------------
(* ElectrodeSortingInfo *)

\* a row given by its primary key only takes the defaults of the definition
DefaultRow(r) ==
    [nwb_file_name |-> r.nwb_file_name, electrode_id |-> r.electrode_id,
     sort_group |-> -1, reference_electrode |-> -1]

\* an initialization that inserts with skip_duplicates: stored rows are kept
initialize_keeping(esi, electrode, nwb_file_name) ==
    LET electrodes == fetch(GoodElectrodes(electrode, nwb_file_name))
        electrode_sorting_info ==
            [i \in 1..Len(electrodes) |-> DefaultRow(electrodes[i])]
    IN  [table |-> insert_replace_skipping(esi, electrode_sorting_info),
         failed |-> FALSE, printed |-> {}]

initialize(esi, electrode, nwb_file_name) ==
    LET electrodes == fetch(GoodElectrodes(electrode, nwb_file_name))
        electrode_sorting_info ==
            [i \in 1..Len(electrodes) |-> DefaultRow(electrodes[i])]
    IN  [table |-> insert_replace(esi, electrode_sorting_info),
         failed |-> FALSE, printed |-> {}]

\* electrodes['electrode_id'][mask] as [elect, sort_group] pairs, in fetch
\* order; mask is the set of positions the boolean mask selects
RECURSIVE new_group_of(_, _, _, _)
new_group_of(electrodes, i, mask, sort_group) ==
    IF i > Len(electrodes) THEN <<>>
    ELSE (IF i \in mask
          THEN << <<electrodes[i].electrode_id, sort_group>> >>
          ELSE <<>>)
         \o new_group_of(electrodes, i + 1, mask, sort_group)

\* a pass that reconciles reference_electrode instead of sort_group
replace_group_reference(st, elect_sort_info, new_group) ==
    LET rec == dj_replace(elect_sort_info, new_group, "electrode_id",
                          "reference_electrode")
    IN  IF st.failed \/ rec.failed
        THEN [st EXCEPT !.failed = TRUE]
        ELSE [table |-> insert_replace(st.table, rec.rows),
              sort_group |-> st.sort_group + 1,
              failed |-> FALSE]

\* one pass of the loop body: reconcile the fetched sorting info, write it back
replace_group(st, elect_sort_info, new_group) ==
    LET rec == dj_replace(elect_sort_info, new_group, "electrode_id", "sort_group")
    IN  IF st.failed \/ rec.failed
        THEN [st EXCEPT !.failed = TRUE]
        ELSE [table |-> insert_replace(st.table, rec.rows),
              sort_group |-> st.sort_group + 1,
              failed |-> FALSE]

\* for shank in shank_list
RECURSIVE shank_loop(_, _, _, _, _, _)
shank_loop(st, electrodes, elect_sort_info, e_group, shank_list, i) ==
    IF i > Len(shank_list) THEN st
    ELSE LET shank == shank_list[i]
             mask == {n \in 1..Len(electrodes) :
                        /\ electrodes[n].electrode_group_name = e_group
                        /\ electrodes[n].probe_shank = shank}
             new_group == new_group_of(electrodes, 1, mask, st.sort_group)
         IN  shank_loop(replace_group(st, elect_sort_info, new_group),
                        electrodes, elect_sort_info, e_group, shank_list, i + 1)

\* for e_group in e_groups (set_group_by_shank)
RECURSIVE e_group_shank_loop(_, _, _, _, _)
e_group_shank_loop(st, electrodes, elect_sort_info, e_groups, i) ==
    IF i > Len(e_groups) THEN st
    ELSE LET e_group == e_groups[i]
             shank_list ==
                 np_unique({electrodes[n].probe_shank :
                              n \in {m \in 1..Len(electrodes) :
                                       electrodes[m].electrode_group_name = e_group}})
         IN  e_group_shank_loop(
                 shank_loop(st, electrodes, elect_sort_info, e_group, shank_list, 1),
                 electrodes, elect_sort_info, e_groups, i + 1)

set_group_by_shank(esi, electrode, nwb_file_name) ==
    LET electrodes == fetch(GoodElectrodes(electrode, nwb_file_name))
        elect_sort_info == fetch(RestrictFile(esi, nwb_file_name))
        e_groups == np_unique({electrodes[n].electrode_group_name :
                                 n \in 1..Len(electrodes)})
        st == e_group_shank_loop([table |-> esi, sort_group |-> 0, failed |-> FALSE],
                                 electrodes, elect_sort_info, e_groups, 1)
    IN  [table |-> st.table, failed |-> st.failed,
         printed |-> IF Len(elect_sort_info) = 0
                     THEN {"no sorting information found"} ELSE {}]

\* for e_group in e_groups (set_group_by_electrode_group)
RECURSIVE e_group_loop(_, _, _, _, _)
e_group_loop(st, electrodes, elect_sort_info, e_groups, i) ==
    IF i > Len(e_groups) THEN st
    ELSE LET e_group == e_groups[i]
             mask == {n \in 1..Len(electrodes) :
                        electrodes[n].electrode_group_name = e_group}
             new_group == new_group_of(electrodes, 1, mask, st.sort_group)
         IN  e_group_loop(replace_group(st, elect_sort_info, new_group),
                          electrodes, elect_sort_info, e_groups, i + 1)

set_group_by_electrode_group(esi, electrode, nwb_file_name) ==
    LET electrodes == fetch(GoodElectrodes(electrode, nwb_file_name))
        e_groups == np_unique({electrodes[n].electrode_group_name :
                                 n \in 1..Len(electrodes)})
        elect_sort_info == fetch(RestrictFile(esi, nwb_file_name))
        st == e_group_loop([table |-> esi, sort_group |-> 0, failed |-> FALSE],
                           electrodes, elect_sort_info, e_groups, 1)
    IN  [table |-> st.table, failed |-> st.failed, printed |-> {}]

\* reconcile reference_electrode of the fetched rows and write them back
replace_reference(esi, elect_ref_info, elect_ref_list) ==
    LET rec == dj_replace(elect_ref_info, elect_ref_list,
                          "electrode_id", "reference_electrode")
    IN  IF rec.failed
        THEN [table |-> esi, failed |-> TRUE, printed |-> {}]
        ELSE [table |-> insert_replace(esi, rec.rows),
              failed |-> FALSE, printed |-> {}]

set_reference_from_electrodes(esi, electrode, nwb_file_name) ==
    LET electrodes == fetch(GoodElectrodes(electrode, nwb_file_name))
        elect_ref_info == fetch(RestrictFile(esi, nwb_file_name))
        ref_elect == [i \in 1..Len(electrodes) |->
                        <<electrodes[i].electrode_id,
                          electrodes[i].original_reference_electrode>>]
    IN  replace_reference(esi, elect_ref_info, ref_elect)

\* the list written as rows of its own instead of reconciled with the stored rows
set_reference_from_list_upsert(esi, nwb_file_name, elect_ref_list) ==
    [table |-> insert_replace(esi,
                   [i \in 1..Len(elect_ref_list) |->
                      [nwb_file_name |-> nwb_file_name,
                       electrode_id |-> elect_ref_list[i][1],
                       sort_group |-> -1,
                       reference_electrode |-> elect_ref_list[i][2]]]),
     failed |-> FALSE, printed |-> {}]

\* the list reconciled in reverse order
set_reference_from_list_reversed(esi, nwb_file_name, elect_ref_list) ==
    LET elect_ref_info == fetch(RestrictFile(esi, nwb_file_name))
        n == Len(elect_ref_list)
    IN  replace_reference(esi, elect_ref_info,
                          [i \in 1..n |-> elect_ref_list[n + 1 - i]])

set_reference_from_list(esi, nwb_file_name, elect_ref_list) ==
    LET elect_ref_info == fetch(RestrictFile(esi, nwb_file_name))
    IN  replace_reference(esi, elect_ref_info, elect_ref_list)

----------------------------------------------------------------------------
(* ElectrodeSortingInfo.write_prb *)

\* str(n) for n >= 0, as the sequence of its decimal digits
RECURSIVE str(_)
str(n) == IF n < 10 THEN <<n>> ELSE str(n \div 10) \o <<n % 10>>

PrbHandle(nwb_file_name) == [kind |-> "prb", path |-> nwb_file_name]

\* sort_electrodes['electrode_id'][sort_electrodes['sort_group'] == sort_group]
RECURSIVE channels_of(_, _, _)
channels_of(sort_electrodes, i, sort_group) ==
    IF i > Len(sort_electrodes) THEN <<>>
    ELSE (IF sort_electrodes[i].sort_group = sort_group
          THEN <<sort_electrodes[i].electrode_id>> ELSE <<>>)
         \o channels_of(sort_electrodes, i + 1, sort_group)

\* the Probe.Electrode rows fetched for one channel of file f
probe_rows(electrode, probe, f, electrode_id) ==
    LET hit == {r \in RestrictFile(electrode, f) : r.electrode_id = electrode_id}
    IN  {q \in probe : \E r \in hit : q.probe_electrode = r.probe_electrode}

\* a group whose labels are listed from the last channel to the first
channel_group_of_reversed(electrode, probe, f, sort_electrodes, sort_group) ==
    LET channels == channels_of(sort_electrodes, 1, sort_group)
        one(c) == CHOOSE q \in probe_rows(electrode, probe, f, c) : TRUE
    IN  [group |-> sort_group,
         channels |-> channels,
         geometry |-> [i \in 1..Len(channels) |->
                         <<one(channels[i]).rel_x, one(channels[i]).rel_y>>],
         label |-> [i \in 1..Len(channels) |->
                      str(channels[Len(channels) + 1 - i])]]

channel_group_of(electrode, probe, f, sort_electrodes, sort_group) ==
    LET channels == channels_of(sort_electrodes, 1, sort_group)
        one(c) == CHOOSE q \in probe_rows(electrode, probe, f, c) : TRUE
    IN  [group |-> sort_group,
         channels |-> channels,
         geometry |-> [i \in 1..Len(channels) |->
                         <<one(channels[i]).rel_x, one(channels[i]).rel_y>>],
         label |-> [i \in 1..Len(channels) |-> str(channels[i])]]

\* open_ok: whether open(prb_file_name, 'w') succeeds
write_prb(esi, electrode, probe, nwb_file_name, open_ok) ==
    LET sort_electrodes == fetch(RestrictFile(esi, nwb_file_name))
        sort_groups == np_unique({sort_electrodes[i].sort_group :
                                    i \in 1..Len(sort_electrodes)})
        scalar(c) == Cardinality(probe_rows(electrode, probe, nwb_file_name, c)) = 1
    IN  IF ~open_ok
        THEN [opened |-> {}, written |-> FALSE, content |-> <<>>,
              outcome |-> "ok", printed |-> {"Error opening prb file"}]
        ELSE IF Len(sort_groups) = 0
        THEN \* np.max of an empty array
             [opened |-> {PrbHandle(nwb_file_name)}, written |-> TRUE,
              content |-> <<>>, outcome |-> "ValueError", printed |-> {}]
        ELSE IF \E i \in 1..Len(sort_electrodes) : ~scalar(sort_electrodes[i].electrode_id)
        THEN \* float() of an array that is not of size one
             [opened |-> {PrbHandle(nwb_file_name)}, written |-> TRUE,
              content |-> <<>>, outcome |-> "TypeError", printed |-> {}]
        ELSE [opened |-> {}, written |-> TRUE,
              content |-> [g \in 1..Len(sort_groups) |->
                             channel_group_of(electrode, probe, nwb_file_name,
                                              sort_electrodes, sort_groups[g])],
              outcome |-> "ok", printed |-> {}]

----------------------------------------------------------------------------
(* Raw *)

RawIntervalName == "raw data valid times"

Raw_make(raw, intervals, nwb_file_name, sampling_rate) ==
    [intervals |-> IF \E r \in intervals :
                        /\ r.nwb_file_name = nwb_file_name
                        /\ r.interval_list_name = RawIntervalName
                   THEN intervals
                   ELSE intervals \cup {[nwb_file_name |-> nwb_file_name,
                                         interval_list_name |-> RawIntervalName]},
     raw |-> IF \E r \in raw : r.nwb_file_name = nwb_file_name
             THEN raw
             ELSE raw \cup {[nwb_file_name |-> nwb_file_name,
                             interval_list_name |-> RawIntervalName,
                             sampling_rate |-> sampling_rate]}]

ReaderHandle(nwb_file_name) == [kind |-> "nwb_object io", path |-> nwb_file_name]

\* the reader opened at line 462 is not closed on any path; fetch1 needs
\* exactly one Raw row
Raw_nwb_object(raw, nwb_file_name) ==
    [opened |-> {ReaderHandle(nwb_file_name)},
     outcome |-> IF Cardinality(RestrictFile(raw, nwb_file_name)) = 1
                 THEN "ok" ELSE "DataJointError"]

----------------------------------------------------------------------------
(* LFPElectrode *)

set_lfp_electrodes(lfp_electrode, electrode, nwb_file_name, electrode_list) ==
    LET kept == {r \in lfp_electrode : r.nwb_file_name # nwb_file_name}
        all_electrodes == electrode
    IN  kept \cup {[nwb_file_name |-> e.nwb_file_name, electrode_id |-> e.electrode_id] :
                     e \in {x \in all_electrodes : x.electrode_id \in electrode_list}}

----------------------------------------------------------------------------
(* LFP.make *)

LFPFilterName == "LFP 0-400 Hz"
TargetRate == 1000

\* int(np.round(x)) for x given in half hertz: halves round to the even integer
np_round(half_hz) ==
    LET q == half_hz \div 2
    IN  IF half_hz % 2 = 0 THEN q
        ELSE IF q % 2 = 0 THEN q ELSE q + 1

IoInHandle(nwb_file_name) == [kind |-> "io_in", path |-> nwb_file_name]

LFPRow(nwb_file_name, electrode_id, sampling_rate, interval_name, filter) ==
    [nwb_file_name |-> nwb_file_name, electrode_id |-> electrode_id,
     interval_list_name |-> interval_name,
     sampling_rate |-> sampling_rate,
     filter_name |-> filter.filter_name,
     filter_sampling_rate |-> filter.filter_sampling_rate]

\* for electrode in electrode_id_list: self.insert1(key)
RECURSIVE insert_lfp_rows(_, _, _)
insert_lfp_rows(table, rows, i) ==
    IF i > Len(rows) THEN [table |-> table, outcome |-> "ok"]
    ELSE IF \E o \in table : PrimaryKey(o) = PrimaryKey(rows[i])
    THEN [table |-> table, outcome |-> "DuplicateError"]
    ELSE insert_lfp_rows(table \cup {rows[i]}, rows, i + 1)

\* fetch(as_dict=True): the rows of a query as a list
RECURSIVE as_list(_)
as_list(rows) ==
    IF rows = {} THEN <<>>
    ELSE LET r == CHOOSE x \in rows : TRUE
         IN  <<r>> \o as_list(rows \ {r})

\* has_interval_name: whether Raw has an attribute called interval_name (its
\*   heading comes from IntervalList, which is defined in another module; the
\*   fetch1 of line 514 raises when it has not)
\* filtered: whether the FirFilter routines complete
\* written: whether the linked file is read, extended and written
LFP_make(st, nwb_file_name, has_interval_name, filtered, written) ==
    LET rawdata == Raw_nwb_object(st.raw, nwb_file_name)
        raw_row == CHOOSE r \in RestrictFile(st.raw, nwb_file_name) : TRUE
        interval_name == raw_row.interval_list_name
        sampling_rate == np_round(raw_row.sampling_rate)
        decimation == sampling_rate \div TargetRate
        valid_times == {r \in st.intervals :
                          /\ r.nwb_file_name = nwb_file_name
                          /\ r.interval_list_name = interval_name}
        filter == as_list({x \in st.filters :
                             /\ x.filter_name = LFPFilterName
                             /\ x.filter_sampling_rate = sampling_rate})
        electrode_keys == fetch(RestrictFile(st.lfp_electrode, nwb_file_name))
        rows == [i \in 1..Len(electrode_keys) |->
                   LFPRow(nwb_file_name, electrode_keys[i].electrode_id,
                          sampling_rate, interval_name, filter[1])]
        inserted == insert_lfp_rows(st.lfp, rows, 1)
        stop(outcome, printed, handles, linked) ==
            [lfp |-> st.lfp, linked |-> linked, opened |-> handles,
             outcome |-> outcome, printed |-> printed]
    IN  IF rawdata.outcome # "ok"
        THEN stop(rawdata.outcome, {}, rawdata.opened, st.linked)
        ELSE IF ~has_interval_name
        THEN stop("DataJointError", {}, rawdata.opened, st.linked)
        ELSE IF Cardinality(valid_times) # 1
        THEN stop("DataJointError", {}, rawdata.opened, st.linked)
        ELSE IF Len(filter) = 0
        THEN \* filter[0] of an empty list
             stop("IndexError", {}, rawdata.opened, st.linked)
        ELSE IF filter[1].filter_coeff_len = 0
        THEN stop("ok", {"Error in LFP: no filter found"}, rawdata.opened, st.linked)
        ELSE IF ~filtered
        THEN stop("FilterError", {"output file name"}, rawdata.opened,
                  st.linked \cup {nwb_file_name})
        ELSE IF ~written
        THEN stop("WriteError", {"output file name"},
                  rawdata.opened \cup {IoInHandle(nwb_file_name)},
                  st.linked \cup {nwb_file_name})
        ELSE [lfp |-> inserted.table,
              linked |-> st.linked \cup {nwb_file_name},
              opened |-> rawdata.opened,
              outcome |-> inserted.outcome,
              printed |-> {"output file name", "past append", "writing new NWB file"}]

----------------------------------------------------------------------------
(* Python dictionaries *)

\* d[k] = v
setitem(d, k, v) == [x \in DOMAIN d \cup {k} |-> IF x = k THEN v ELSE d[x]]

\* dict(): the dictionary without keys
dict == [x \in {} |-> 0]

----------------------------------------------------------------------------
(* ElectrodeConfig.make *)

\* probe_re.search(d): the device name, a sequence of words, has 'probe'
probe_re_search(d) == \E i \in 1..Len(d) : d[i] = "probe"

\* nwbf.devices: the devices the electrode groups of the file refer to
nwbf_devices(nwbf) ==
    {nwbf.electrode_groups[i].device : i \in 1..Len(nwbf.electrode_groups)}

\* the region_id the store gives to an inserted BrainRegion row
next_region_id(regions) ==
    IF regions = {} THEN 1
    ELSE 1 + (CHOOSE n \in {r.region_id : r \in regions} :
                 \A r \in regions : r.region_id <= n)

\* insert1(eg_dict, skip_duplicates=True) into ElectrodeGroup
insert1_group(groups, row) ==
    IF \E r \in groups :
          /\ r.nwb_file_name = row["nwb_file_name"]
          /\ r.electrode_group_name = row["electrode_group_name"]
    THEN groups
    ELSE groups \cup {[nwb_file_name |-> row["nwb_file_name"],
                       electrode_group_name |-> row["electrode_group_name"],
                       region_id |-> row["region_id"],
                       probe_type |-> row["probe_type"]]}

\* insert1(elect_dict, skip_duplicates=True) into Electrode
insert1_electrode(electrode, row) ==
    IF \E r \in electrode : PrimaryKey(r) = PrimaryKey(row)
    THEN electrode
    ELSE electrode \cup {row}

\* the loop over the electrode groups, from group i on; eg_dict is the one
\* dictionary that is filled for every group
RECURSIVE egroup_loop(_, _, _, _)
egroup_loop(st, nwbf, i, eg_dict) ==
    IF i > Len(nwbf.electrode_groups) THEN [st EXCEPT !.eg_dict = eg_dict]
    ELSE
    LET electrode_group == nwbf.electrode_groups[i]
        found == {r \in st.regions : r.region_name = electrode_group.location}
        regions == IF found = {}
                   THEN st.regions \cup
                           {[region_id |-> next_region_id(st.regions),
                             region_name |-> electrode_group.location]}
                   ELSE st.regions
        region_id_dict ==
            CHOOSE r \in regions : r.region_name = electrode_group.location
        named == setitem(setitem(eg_dict, "electrode_group_name",
                                 electrode_group.name),
                         "region_id", region_id_dict.region_id)
        matched == \E d \in nwbf_devices(nwbf) :
                      /\ probe_re_search(d.name)
                      /\ d = electrode_group.device
        probed == IF matched
                  THEN setitem(named, "probe_type",
                               electrode_group.device.probe_type)
                  ELSE named
        filled == IF "probe_type" \notin DOMAIN probed
                  THEN setitem(probed, "probe_type", "unknown-probe-type")
                  ELSE probed
    IN  egroup_loop([st EXCEPT !.regions = regions,
                               !.groups = insert1_group(st.groups, filled)],
                    nwbf, i + 1, filled)

\* the loop over the rows of the electrode table, from row i on
RECURSIVE electrode_loop(_, _, _, _)
electrode_loop(st, nwbf, i, nwb_file_name) ==
    IF i > Len(nwbf.electrodes) THEN st
    ELSE
    LET elect == nwbf.electrodes[i]
        group == nwbf.electrode_groups[elect.group]
        elect_dict ==
            [nwb_file_name |-> nwb_file_name,
             electrode_id |-> elect.id,
             electrode_group_name |-> group.name,
             probe_type |-> group.device.probe_type,
             probe_shank |-> elect.probe_shank,
             probe_electrode |-> elect.probe_electrode % 128,
             bad_channel |-> IF elect.bad_channel THEN "True" ELSE "False",
             region_id |-> st.eg_dict["region_id"],
             original_reference_electrode |->
                 IF elect.has_ref_elect THEN elect.ref_elect ELSE -1]
    IN  IF ~group.device.has_probe_type
        THEN \* elect[1].group.device.probe_type of a device without it
             [st EXCEPT !.outcome = "AttributeError"]
        ELSE electrode_loop(
                 [st EXCEPT !.electrode = insert1_electrode(st.electrode, elect_dict)],
                 nwbf, i + 1, nwb_file_name)

\* st: the tables config, groups, regions and electrode
ElectrodeConfig_make(st, nwbf, nwb_file_name) ==
    LET begun == [st EXCEPT !.config = st.config \cup {nwb_file_name}]
        eg_dict == setitem(dict, "nwb_file_name", nwb_file_name)
    IN  IF nwb_file_name \in st.config
        THEN \* self.insert1 of a key that is stored
             [st EXCEPT !.outcome = "DuplicateError"]
        ELSE electrode_loop(egroup_loop(begun, nwbf, 1, eg_dict),
                            nwbf, 1, nwb_file_name)

----------------------------------------------------------------------------
(* Unit.insert_from_nwbfile *)

\* 'unit {} interval list'.format(unum)
UnitIntervalName(unum) == <<"unit ", str(unum), " interval list">>

\* insert1(row, skip_duplicates=True) into IntervalList
insert1_interval(intervals, row) ==
    IF \E r \in intervals :
          /\ r.nwb_file_name = row.nwb_file_name
          /\ r.interval_list_name = row.interval_list_name
    THEN intervals
    ELSE intervals \cup {row}

\* the body of the loop over the units, from unit number unum on; each unit
\* of the units container has an electrode group and may have an 'id' column
RECURSIVE unit_loop(_, _, _, _, _)
unit_loop(st, units_df, unum, interval_list_dict, nwb_file_name) ==
    IF unum >= Len(units_df) THEN [st EXCEPT !.outcome = "ok"]
    ELSE
    LET u == units_df[unum + 1]
        ild == setitem(interval_list_dict, "interval_list_name",
                       UnitIntervalName(unum))
        intervals == insert1_interval(st.intervals,
                        [nwb_file_name |-> ild["nwb_file_name"],
                         interval_list_name |-> ild["interval_list_name"]])
        key == [nwb_file_name |-> nwb_file_name,
                unit_id |-> IF u.has_id THEN u.id ELSE unum,
                electrode_group_name |-> u.electrode_group,
                interval_list_name |-> ild["interval_name"],
                cluster_name |-> u.cluster_name,
                nwb_object_id |-> -1]
    IN  IF "interval_name" \notin DOMAIN ild
        THEN \* interval_list_dict['interval_name'] of a dictionary without that key
             [st EXCEPT !.intervals = intervals, !.outcome = "KeyError"]
        ELSE IF \E r \in st.unit : /\ r.nwb_file_name = key.nwb_file_name
                                   /\ r.unit_id = key.unit_id
        THEN \* insert1 of a key that is stored
             [st EXCEPT !.intervals = intervals, !.outcome = "DuplicateError"]
        ELSE unit_loop([st EXCEPT !.intervals = intervals,
                                  !.unit = st.unit \cup {key}],
                       units_df, unum + 1, ild, nwb_file_name)

\* nwbf: the source file; its units container may be absent
Unit_insert_from_nwbfile(unit, intervals, nwbf, nwb_file_name) ==
    LET interval_list_dict == setitem(dict, "nwb_file_name", nwb_file_name)
        st == [unit |-> unit, intervals |-> intervals, outcome |-> "ok",
               printed |-> {}]
    IN  IF nwbf.units_is_none
        THEN [st EXCEPT !.printed = {"Unable to import units: No units found"}]
        ELSE unit_loop(st, nwbf.units, 0, interval_list_dict, nwb_file_name)

----------------------------------------------------------------------------
(* Initial stores *)

ElectrodeRow(f, e, c) ==
    [nwb_file_name |-> f, electrode_id |-> e,
     electrode_group_name |-> c.electrode_group_name,
     probe_shank |-> c.probe_shank,
     probe_electrode |-> e,
     bad_channel |-> c.bad_channel,
     original_reference_electrode |-> c.original_reference_electrode]

ElectrodeColumns(groups, shanks, bads) ==
    [electrode_group_name : groups, probe_shank : shanks,
     bad_channel : bads,
     original_reference_electrode : OrigRefs]

\* the Electrode tables of file f with electrodes 0..n-1
ElectrodeTables(f, n, groups, shanks, bads) ==
    {{ElectrodeRow(f, e, c[e]) : e \in 0..(n - 1)} :
        c \in [0..(n - 1) -> ElectrodeColumns(groups, shanks, bads)]}

\* the Electrode tables of a probe of one group whose contacts go round its
\* shanks, any of them a bad channel
ProbeLayouts(f, n, bads) ==
    {t \in ElectrodeTables(f, n, {1}, 0..MaxShank, bads) :
        \A r \in t : r.probe_shank = r.electrode_id % (MaxShank + 1)}

\* one Probe.Electrode row per contact
ProbeTable(n) ==
    {[probe_type |-> "tetrode", probe_electrode |-> p, rel_x |-> p, rel_y |-> 0] :
        p \in 0..(n - 1)}

\* the same with a second probe type that reuses contact number 0
ProbeTables(n) ==
    {ProbeTable(n),
     ProbeTable(n) \cup {[probe_type |-> "polymer", probe_electrode |-> 0,
                          rel_x |-> 0, rel_y |-> 1]}}

FilterRows ==
    [filter_name : {LFPFilterName},
     filter_sampling_rate : FilterRates,
     filter_coeff_len : {0, 2}]

\* FirFilter tables: a ripple filter and at most one LFP filter
FilterTables ==
    {{[filter_name |-> "Ripple 150-250 Hz", filter_sampling_rate |-> 30000,
       filter_coeff_len |-> 2]} \cup t :
        t \in {{}} \cup {{r} : r \in FilterRows}}

\* a source file without electrode groups, electrodes and units container
NoNwbFile ==
    [electrode_groups |-> <<>>, electrodes |-> <<>>,
     units_is_none |-> TRUE, units |-> <<>>]

\* brain regions the electrode groups are located in
Regions == {"CA1", "PFC"}

\* the devices of a source file: a probe named as one, a probe whose name
\* lacks the word, and a device that is no probe and has no probe_type
Devices ==
    {[name |-> <<"probe", "0">>, has_probe_type |-> TRUE,
      probe_type |-> "tetrode"],
     [name |-> <<"polymer", "array">>, has_probe_type |-> TRUE,
      probe_type |-> "polymer"],
     [name |-> <<"dataacq", "device">>, has_probe_type |-> FALSE,
      probe_type |-> ""]}

\* the electrode groups of a source file, up to n of them, in file order
GroupLists(n) ==
    UNION {{[i \in 1..k |-> [name |-> i, location |-> loc[i], device |-> dev[i]]] :
               loc \in [1..k -> Regions], dev \in [1..k -> Devices]} :
           k \in 0..n}

\* the electrode tables of up to n electrodes over the given groups
NwbElectrodes(groups, n) ==
    UNION {{[e \in 1..k |->
                [id |-> e - 1, group |-> of[e], probe_shank |-> 0,
                 probe_electrode |-> 128 + (e - 1), bad_channel |-> FALSE,
                 has_ref_elect |-> FALSE, ref_elect |-> -1]] :
               of \in [1..k -> 1..Len(groups)]} :
           k \in 0..n}

\* the source files as ElectrodeConfig.make reads them
ConfigFiles ==
    UNION {{[NoNwbFile EXCEPT !.electrode_groups = g, !.electrodes = e] :
               e \in NwbElectrodes(g, NumElectrodes)} :
           g \in GroupLists(MaxGroup)}

\* the units containers of up to n units, with or without an 'id' column
UnitTables(n) ==
    UNION {{[i \in 1..k |-> [has_id |-> h, id |-> i, electrode_group |-> g[i],
                             cluster_name |-> <<"c", i>>]] :
               h \in BOOLEAN, g \in [1..k -> 1..MaxGroup]} : k \in 0..n}

\* the source files as the unit import reads them
UnitFiles ==
    {NoNwbFile} \cup {[NoNwbFile EXCEPT !.units_is_none = FALSE, !.units = u] :
                        u \in UnitTables(MaxUnits)}

NoOperation ==
    [op |-> "none", nwb_file_name |-> "f", elect_ref_list |-> <<>>,
     electrode_list |-> {}, preSortingInfo |-> {}, preLFPElectrode |-> {},
     preLFP |-> {}, preLinkedFiles |-> {}, preOpenHandles |-> {},
     nwbf |-> NoNwbFile, preElectrode |-> {}, preElectrodeGroup |-> {},
     preIntervalList |-> {}, preUnit |-> {},
     outcome |-> "ok", printed |-> {}]

Operation(op, f, outcome, printed) ==
    [NoOperation EXCEPT !.op = op, !.nwb_file_name = f,
                        !.preSortingInfo = ElectrodeSortingInfo,
                        !.preLFPElectrode = LFPElectrode,
                        !.preLFP = LFP,
                        !.preLinkedFiles = linkedFiles,
                        !.preOpenHandles = openHandles,
                        !.preElectrode = Electrode,
                        !.preElectrodeGroup = ElectrodeGroup,
                        !.preIntervalList = IntervalList,
                        !.preUnit = Unit,
                        !.outcome = outcome, !.printed = printed]

EmptyStore ==
    /\ ElectrodeSortingInfo = {}
    /\ LFPElectrode = {}
    /\ IntervalList = {}
    /\ Raw = {}
    /\ LFP = {}
    /\ linkedFiles = {}
    /\ prbFiles = {}
    /\ openHandles = {}
    /\ ElectrodeConfig = {}
    /\ ElectrodeGroup = {}
    /\ BrainRegion = {}
    /\ Unit = {}
    /\ last = NoOperation

Init ==
    /\ EmptyStore
    /\ FirFilter = {}
    /\ ProbeElectrode = ProbeTable(NumElectrodes)
    /\ \E tf \in ProbeLayouts("f", NumElectrodes, {"True", "False"}),
          tg \in ProbeLayouts("g", NumOtherElectrodes, {"False"}) :
          Electrode = tf \cup tg

InitGroup ==
    /\ EmptyStore
    /\ FirFilter = {}
    /\ ProbeElectrode = ProbeTable(NumShankElectrodes)
    /\ \E tf \in ElectrodeTables("f", NumShankElectrodes, 1..MaxGroup, 0..MaxShank,
                                 {"True", "False"}),
          tg \in ProbeLayouts("g", NumOtherElectrodes, {"False"}) :
          Electrode = tf \cup tg

InitIO ==
    /\ EmptyStore
    /\ FirFilter \in FilterTables
    /\ ProbeElectrode \in ProbeTables(NumElectrodes)
    /\ \E tf \in ProbeLayouts("f", NumElectrodes, {"True", "False"}),
          tg \in ProbeLayouts("g", NumOtherElectrodes, {"True", "False"}) :
          Electrode = tf \cup tg

\* a probe of NumShankElectrodes contacts in file f and a second session g
InitPrb ==
    /\ EmptyStore
    /\ FirFilter = {}
    /\ ProbeElectrode \in ProbeTables(NumShankElectrodes)
    /\ \E tf \in ProbeLayouts("f", NumShankElectrodes, {"True", "False"}),
          tg \in ProbeLayouts("g", NumOtherElectrodes, {"True", "False"}) :
          Electrode = tf \cup tg

\* the store before any source file is imported
InitImport ==
    /\ EmptyStore
    /\ FirFilter = {}
    /\ ProbeElectrode = ProbeTable(NumElectrodes)
    /\ Electrode = {}

----------------------------------------------------------------------------
(* Actions *)

\* the operator takes note of the result before the next call; the store
\* and the files are as the operation left them
Acknowledge ==
    /\ last.op # "none"
    /\ last' = NoOperation
    /\ UNCHANGED <<inputs, sorting, lfp, files, config, units>>

SortingInfoStep(op, f, list, res) ==
    /\ last.op = "none"
    /\ ElectrodeSortingInfo' = res.table
    /\ last' = [Operation(op, f, IF res.failed THEN "error" ELSE "ok", res.printed)
                  EXCEPT !.elect_ref_list = list]
    /\ UNCHANGED <<inputs, lfp, files, config, units>>

Initialize(f) ==
    SortingInfoStep("initialize", f, <<>>,
                    initialize(ElectrodeSortingInfo, Electrode, f))

SetGroupByShank(f) ==
    SortingInfoStep("set_group_by_shank", f, <<>>,
                    set_group_by_shank(ElectrodeSortingInfo, Electrode, f))

SetGroupByElectrodeGroup(f) ==
    SortingInfoStep("set_group_by_electrode_group", f, <<>>,
                    set_group_by_electrode_group(ElectrodeSortingInfo, Electrode, f))

SetReferenceFromElectrodes(f) ==
    SortingInfoStep("set_reference_from_electrodes", f, <<>>,
                    set_reference_from_electrodes(ElectrodeSortingInfo, Electrode, f))

\* update lists: rows [electrode_id, reference_electrode] that name the first
\* two electrodes and electrode n, which is in no file
RefLists(n) ==
    UNION {[1..k -> {0, 1, n} \X RefValues] : k \in 0..MaxListLen}

SetReferenceFromList(f, elect_ref_list) ==
    SortingInfoStep("set_reference_from_list", f, elect_ref_list,
                    set_reference_from_list(ElectrodeSortingInfo, f, elect_ref_list))

WritePrb(f, open_ok) ==
    LET res == write_prb(ElectrodeSortingInfo, Electrode, ProbeElectrode, f, open_ok)
    IN  /\ last.op = "none"
        /\ prbFiles' = IF res.written
                       THEN {p \in prbFiles : p.nwb_file_name # f}
                                \cup {[nwb_file_name |-> f, content |-> res.content]}
                       ELSE prbFiles
        /\ openHandles' = openHandles \cup res.opened
        /\ last' = Operation("write_prb", f, res.outcome, res.printed)
        /\ UNCHANGED <<inputs, sorting, lfp, config, units>>

RawMake(f, sampling_rate) ==
    LET res == Raw_make(Raw, IntervalList, f, sampling_rate)
    IN  /\ last.op = "none"
        /\ Raw' = res.raw
        /\ IntervalList' = res.intervals
        /\ last' = Operation("Raw.make", f, "ok", {"Estimating sampling rate"})
        /\ UNCHANGED <<inputs, sorting, LFPElectrode, LFP, linkedFiles, files, config, units>>

RawNwbObject(f) ==
    LET res == Raw_nwb_object(Raw, f)
    IN  /\ last.op = "none"
        /\ openHandles' = openHandles \cup res.opened
        /\ last' = Operation("Raw.nwb_object", f, res.outcome, {})
        /\ UNCHANGED <<inputs, sorting, lfp, prbFiles, config, units>>

\* the store cascades the delete of line 483 to the LFP rows that depend on
\* the deleted LFPElectrode rows
SetLfpElectrodes(f, electrode_list) ==
    /\ last.op = "none"
    /\ LFPElectrode' = set_lfp_electrodes(LFPElectrode, Electrode, f, electrode_list)
    /\ LFP' = {r \in LFP : r.nwb_file_name # f}
    /\ last' = [Operation("set_lfp_electrodes", f, "ok", {})
                  EXCEPT !.electrode_list = electrode_list]
    /\ UNCHANGED <<inputs, sorting, IntervalList, Raw, linkedFiles, files, config, units>>

LFPMake(f, has_interval_name, filtered, written) ==
    LET res == LFP_make([raw |-> Raw, intervals |-> IntervalList, filters |-> FirFilter,
                         lfp_electrode |-> LFPElectrode, lfp |-> LFP,
                         linked |-> linkedFiles],
                        f, has_interval_name, filtered, written)
    IN  /\ last.op = "none"
        /\ LFP' = res.lfp
        /\ linkedFiles' = res.linked
        /\ openHandles' = openHandles \cup res.opened
        /\ last' = Operation("LFP.make", f, res.outcome, res.printed)
        /\ UNCHANGED <<inputs, sorting, LFPElectrode, IntervalList, Raw, prbFiles, config, units>>

ElectrodeConfigMake(f, nwbf) ==
    LET res == ElectrodeConfig_make(
                   [config |-> ElectrodeConfig, groups |-> ElectrodeGroup,
                    regions |-> BrainRegion, electrode |-> Electrode,
                    eg_dict |-> dict, outcome |-> "ok"],
                   nwbf, f)
    IN  /\ last.op = "none"
        /\ ElectrodeConfig' = res.config
        /\ ElectrodeGroup' = res.groups
        /\ BrainRegion' = res.regions
        /\ Electrode' = res.electrode
        /\ last' = [Operation("ElectrodeConfig.make", f, res.outcome, {})
                      EXCEPT !.nwbf = nwbf]
        /\ UNCHANGED <<ProbeElectrode, FirFilter, sorting, lfp, files, units>>

UnitInsertFromNwbfile(f, nwbf) ==
    LET res == Unit_insert_from_nwbfile(Unit, IntervalList, nwbf, f)
    IN  /\ last.op = "none"
        /\ Unit' = res.unit
        /\ IntervalList' = res.intervals
        /\ last' = [Operation("Unit.insert_from_nwbfile", f, res.outcome,
                              res.printed) EXCEPT !.nwbf = nwbf]
        /\ UNCHANGED <<inputs, sorting, LFPElectrode, Raw, LFP, linkedFiles,
                       files, config>>

----------------------------------------------------------------------------
(* Specifications *)

\* the reconciling operations of ElectrodeSortingInfo
Next ==
    \/ \E f \in Files : Initialize(f)
    \/ \E f \in Files : SetGroupByShank(f)
    \/ \E f \in Files : SetGroupByElectrodeGroup(f)
    \/ \E f \in Files : SetReferenceFromElectrodes(f)
    \/ \E f \in Files, l \in RefLists(NumElectrodes) : SetReferenceFromList(f, l)
    \/ Acknowledge

Spec == Init /\ [][Next]_vars

\* the grouping operations over every layout of groups and shanks
NextGroup ==
    \/ \E f \in Files : Initialize(f)
    \/ \E f \in Files : SetGroupByShank(f)
    \/ \E f \in Files : SetGroupByElectrodeGroup(f)
    \/ Acknowledge

SpecGroup == InitGroup /\ [][NextGroup]_vars

\* the LFP selection and the import and export operations of one session
NextIO ==
    \/ \E f \in Sessions : Initialize(f)
    \/ \E f \in Sessions, open_ok \in BOOLEAN : WritePrb(f, open_ok)
    \/ \E f \in Sessions, r \in RawRates : RawMake(f, r)
    \/ \E f \in Sessions : RawNwbObject(f)
    \/ \E f \in Files, l \in SUBSET (0..NumElectrodes) : SetLfpElectrodes(f, l)
    \/ \E f \in Sessions, a \in BOOLEAN, b \in BOOLEAN, c \in BOOLEAN : LFPMake(f, a, b, c)
    \/ Acknowledge

SpecIO == InitIO /\ [][NextIO]_vars

\* sort groups are assigned and the geometry descriptor is written
NextPrb ==
    \/ \E f \in Files : Initialize(f)
    \/ \E f \in Files : SetGroupByShank(f)
    \/ \E f \in Files : SetGroupByElectrodeGroup(f)
    \/ \E f \in Files, open_ok \in BOOLEAN : WritePrb(f, open_ok)
    \/ Acknowledge

SpecPrb == InitPrb /\ [][NextPrb]_vars

\* the import of the electrode configuration and of the units of source files
NextImport ==
    \/ \E f \in Sessions, nwbf \in ConfigFiles : ElectrodeConfigMake(f, nwbf)
    \/ \E f \in Files, nwbf \in UnitFiles : UnitInsertFromNwbfile(f, nwbf)
    \/ Acknowledge

SpecImport == InitImport /\ [][NextImport]_vars

----------------------------------------------------------------------------
(* Properties *)

Keys(table) == {<<r.nwb_file_name, r.electrode_id>> : r \in table}

\* the rows of file f in a table
RowsOf(table, f) == {r \in table : r.nwb_file_name = f}

\* the electrodes of file f that are not bad channels
GoodOf(f) == {e \in RowsOf(Electrode, f) : e.bad_channel = "False"}

\* the stored row of electrode e of file f
Stored(table, f, e) ==
    {r \in table : r.nwb_file_name = f /\ r.electrode_id = e}

ReconcilingOps ==
    {"set_group_by_shank", "set_group_by_electrode_group",
     "set_reference_from_electrodes", "set_reference_from_list"}

\* the electrode ids an update list names
ListedIds(list) == {list[i][1] : i \in 1..Len(list)}

\* how often an update list names electrode e
Occurrences(list, e) == Cardinality({i \in 1..Len(list) : list[i][1] = e})

\* C1: after set_group_by_shank on a store where every non-bad electrode of the
\* file has a sorting-info row, two non-bad electrodes have the same sort_group
\* exactly when they have the same electrode group and the same shank.
C1_GroupPerShank ==
    (/\ last.op = "set_group_by_shank"
     /\ last.outcome = "ok"
     /\ \A e \in GoodOf(last.nwb_file_name) :
           Stored(last.preSortingInfo, e.nwb_file_name, e.electrode_id) # {})
    => \A a \in GoodOf(last.nwb_file_name),
          b \in GoodOf(last.nwb_file_name) :
          \A ra \in Stored(ElectrodeSortingInfo, a.nwb_file_name, a.electrode_id),
             rb \in Stored(ElectrodeSortingInfo, b.nwb_file_name, b.electrode_id) :
             (ra.sort_group = rb.sort_group)
                 <=> (/\ a.electrode_group_name = b.electrode_group_name
                      /\ a.probe_shank = b.probe_shank)

\* C2: the four reconciling operations leave the set of keys of
\* ElectrodeSortingInfo as it was: no row is added and none is removed.
C2_KeysPreserved ==
    last.op \in ReconcilingOps
    => /\ Keys(ElectrodeSortingInfo) = Keys(last.preSortingInfo)
       /\ Cardinality(ElectrodeSortingInfo) = Cardinality(last.preSortingInfo)

\* a reconciling call that rewrote rows of its file while the other file has rows
C2_Witness ==
    /\ last.op \in ReconcilingOps
    /\ ElectrodeSortingInfo # last.preSortingInfo
    /\ \E r \in ElectrodeSortingInfo : r.nwb_file_name # last.nwb_file_name

\* C3: set_reference_from_list(f, L) leaves every row of f whose electrode is
\* not named in L, and every row of any other file, exactly as it was.
C3_ListFrame ==
    last.op = "set_reference_from_list"
    => \A r \in last.preSortingInfo :
          (\/ r.nwb_file_name # last.nwb_file_name
           \/ r.electrode_id \notin ListedIds(last.elect_ref_list))
          => r \in ElectrodeSortingInfo

\* a list call that rewrote a row of f, with an unnamed row of f and a row of
\* another file whose electrode id is named in the list
C3_Witness ==
    /\ last.op = "set_reference_from_list"
    /\ ElectrodeSortingInfo # last.preSortingInfo
    /\ \E r \in last.preSortingInfo :
          /\ r.nwb_file_name = last.nwb_file_name
          /\ r.electrode_id \notin ListedIds(last.elect_ref_list)
    /\ \E r \in last.preSortingInfo :
          /\ r.nwb_file_name # last.nwb_file_name
          /\ r.electrode_id \in ListedIds(last.elect_ref_list)

\* C4: after set_reference_from_list(f, L) every row of f whose electrode is
\* named exactly once in L, with value x, has reference_electrode x.
C4_ListSetsValue ==
    last.op = "set_reference_from_list"
    => \A r \in RowsOf(ElectrodeSortingInfo, last.nwb_file_name) :
          \A i \in 1..Len(last.elect_ref_list) :
             (/\ last.elect_ref_list[i][1] = r.electrode_id
              /\ Occurrences(last.elect_ref_list, r.electrode_id) = 1)
             => r.reference_electrode = last.elect_ref_list[i][2]

\* a list call naming a stored electrode once, with a value it did not have
C4_Witness ==
    /\ last.op = "set_reference_from_list"
    /\ \E r \in RowsOf(last.preSortingInfo, last.nwb_file_name) :
          \E i \in 1..Len(last.elect_ref_list) :
             /\ last.elect_ref_list[i][1] = r.electrode_id
             /\ Occurrences(last.elect_ref_list, r.electrode_id) = 1
             /\ last.elect_ref_list[i][2] # r.reference_electrode

\* the rows of now agree with the rows of before on the given field
SameField(before, now, field) ==
    /\ \A r \in before :
          \E n \in now : Keys({n}) = Keys({r}) /\ n[field] = r[field]
    /\ \A n \in now :
          \E r \in before : Keys({n}) = Keys({r}) /\ n[field] = r[field]

\* C5: the grouping operations leave reference_electrode of every row
\* unchanged, the reference operations leave sort_group of every row unchanged.
C5_OnlyNamedField ==
    /\ last.op \in {"set_group_by_shank", "set_group_by_electrode_group"}
       => SameField(last.preSortingInfo, ElectrodeSortingInfo, "reference_electrode")
    /\ last.op \in {"set_reference_from_electrodes", "set_reference_from_list"}
       => SameField(last.preSortingInfo, ElectrodeSortingInfo, "sort_group")

\* a grouping call that changed the sort_group of a row with a reference set
C5_Witness ==
    /\ last.op \in {"set_group_by_shank", "set_group_by_electrode_group"}
    /\ \E r \in last.preSortingInfo :
          /\ r.reference_electrode # -1
          /\ \E n \in ElectrodeSortingInfo :
                Keys({n}) = Keys({r}) /\ n.sort_group # r.sort_group

\* the electrodes a list names that have no row of file f in the given table
UnknownIds(table, f, list) ==
    {e \in ListedIds(list) : Stored(table, f, e) = {}}

\* C6: a pair of the list whose electrode has no row of file f is ignored: no
\* row is created for it, the call does not fail, and when every pair is
\* unknown the table is unchanged.
C6_UnknownIgnored ==
    last.op = "set_reference_from_list"
    => /\ last.outcome = "ok"
       /\ \A e \in UnknownIds(last.preSortingInfo, last.nwb_file_name,
                              last.elect_ref_list) :
             Stored(ElectrodeSortingInfo, last.nwb_file_name, e) = {}
       /\ UnknownIds(last.preSortingInfo, last.nwb_file_name, last.elect_ref_list)
              = ListedIds(last.elect_ref_list)
          => ElectrodeSortingInfo = last.preSortingInfo

\* a list call on a file with rows, whose non-empty list names unknown
\* electrodes only
C6_Witness ==
    /\ last.op = "set_reference_from_list"
    /\ Len(last.elect_ref_list) > 0
    /\ RowsOf(last.preSortingInfo, last.nwb_file_name) # {}
    /\ UnknownIds(last.preSortingInfo, last.nwb_file_name, last.elect_ref_list)
           = ListedIds(last.elect_ref_list)

\* C7: when the list names an electrode more than once, the stored
\* reference_electrode after the call is the value of the last such pair.
C7_LastWriteWins ==
    last.op = "set_reference_from_list"
    => \A r \in RowsOf(ElectrodeSortingInfo, last.nwb_file_name) :
          \A i \in 1..Len(last.elect_ref_list) :
             (/\ Occurrences(last.elect_ref_list, r.electrode_id) > 1
              /\ last.elect_ref_list[i][1] = r.electrode_id
              /\ \A j \in (i + 1)..Len(last.elect_ref_list) :
                    last.elect_ref_list[j][1] # r.electrode_id)
             => r.reference_electrode = last.elect_ref_list[i][2]

\* a list call naming a stored electrode twice with two different values
C7_Witness ==
    /\ last.op = "set_reference_from_list"
    /\ \E r \in RowsOf(ElectrodeSortingInfo, last.nwb_file_name) :
          \E i \in 1..Len(last.elect_ref_list), j \in 1..Len(last.elect_ref_list) :
             /\ i < j
             /\ last.elect_ref_list[i][1] = r.electrode_id
             /\ last.elect_ref_list[j][1] = r.electrode_id
             /\ last.elect_ref_list[i][2] # last.elect_ref_list[j][2]

\* C8: after set_lfp_electrodes(f, L) the LFPElectrode rows of f are the
\* electrodes of f whose id is in L, and the rows of every other file are as
\* they were.
C8_LfpElectrodesOfFile ==
    last.op = "set_lfp_electrodes"
    => /\ Keys(RowsOf(LFPElectrode, last.nwb_file_name))
             = Keys({e \in RowsOf(Electrode, last.nwb_file_name) :
                       e.electrode_id \in last.electrode_list})
       /\ \A g \in Files \ {last.nwb_file_name} :
             RowsOf(LFPElectrode, g) = RowsOf(last.preLFPElectrode, g)

\* C9: every file handle opened by write_prb, Raw.nwb_object or LFP.make is
\* closed when the operation is over, however it ended.
C9_HandlesClosed ==
    last.op \in {"write_prb", "Raw.nwb_object", "LFP.make"}
    => openHandles \subseteq last.preOpenHandles

\* the LFP filter rows that match the rounded sampling rate of the raw data
MatchingFilters(f) ==
    {x \in FirFilter :
        /\ x.filter_name = LFPFilterName
        /\ \E r \in RowsOf(Raw, f) :
              x.filter_sampling_rate = np_round(r.sampling_rate)}

\* C10: when the raw data and its sampling rate were fetched and no filter
\* named 'LFP 0-400 Hz' matches the rounded rate, LFP.make reports the missing filter and aborts; LFP is
\* unchanged and no linked file is created.
C10_MissingFilterReported ==
    (/\ last.op = "LFP.make"
     /\ RowsOf(Raw, last.nwb_file_name) # {}
     /\ last.outcome # "DataJointError"
     /\ MatchingFilters(last.nwb_file_name) = {})
    => /\ "Error in LFP: no filter found" \in last.printed
       /\ LFP = last.preLFP
       /\ linkedFiles = last.preLinkedFiles

\* C11: after initialize(f) every non-bad electrode of f has exactly one
\* ElectrodeSortingInfo row, with sort_group -1 and reference_electrode -1,
\* whatever that row held before the call; the rows of other files are as they
\* were.
C11_InitializeDefaults ==
    last.op = "initialize"
    => /\ \A e \in GoodOf(last.nwb_file_name) :
             /\ Cardinality(Stored(ElectrodeSortingInfo, e.nwb_file_name,
                                   e.electrode_id)) = 1
             /\ \A r \in Stored(ElectrodeSortingInfo, e.nwb_file_name,
                                 e.electrode_id) :
                   r.sort_group = -1 /\ r.reference_electrode = -1
       /\ \A g \in Files \ {last.nwb_file_name} :
             RowsOf(ElectrodeSortingInfo, g) = RowsOf(last.preSortingInfo, g)

\* an initialize(f) on a store where a non-bad electrode of f had a sort group
\* and a reference other than -1, and another file has rows that are not the
\* defaults
C11_Witness ==
    /\ last.op = "initialize"
    /\ \E e \in GoodOf(last.nwb_file_name) :
          \E r \in Stored(last.preSortingInfo, e.nwb_file_name, e.electrode_id) :
             r.sort_group # -1 /\ r.reference_electrode # -1
    /\ \E r \in ElectrodeSortingInfo :
          /\ r.nwb_file_name # last.nwb_file_name
          /\ r.sort_group # -1

\* the prb file written for file f
PrbOf(f) == {p \in prbFiles : p.nwb_file_name = f}

\* the positions of the groups of a descriptor whose channel list has e
GroupsWith(content, e) ==
    {g \in 1..Len(content) :
        \E i \in 1..Len(content[g].channels) : content[g].channels[i] = e}

\* the number a decimal label denotes
RECURSIVE LabelValue(_)
LabelValue(d) ==
    IF Len(d) = 0 THEN 0
    ELSE 10 * LabelValue(SubSeq(d, 1, Len(d) - 1)) + d[Len(d)]

\* the probe coordinates of electrode e of file f
Coordinates(f, e) ==
    {<<q.rel_x, q.rel_y>> : q \in
        {q \in ProbeElectrode :
            \E r \in RowsOf(Electrode, f) :
               r.electrode_id = e /\ r.probe_electrode = q.probe_electrode}}

\* C12: in the descriptor that a completed write_prb(f, path) wrote, every
\* electrode of f with a sorting-info row is in the channel list of exactly one
\* group, the group whose id is its stored sort_group, once; and in each group
\* the channel, coordinate and label lists have the same length and, position
\* by position, the label and the coordinates are those of the channel.
C12_PrbGroups ==
    (/\ last.op = "write_prb"
     /\ last.outcome = "ok"
     /\ last.printed = {})
    => /\ PrbOf(last.nwb_file_name) # {}
       /\ \A p \in PrbOf(last.nwb_file_name) :
             /\ \A r \in RowsOf(ElectrodeSortingInfo, last.nwb_file_name) :
                   /\ Cardinality(GroupsWith(p.content, r.electrode_id)) = 1
                   /\ \A g \in GroupsWith(p.content, r.electrode_id) :
                         /\ p.content[g].group = r.sort_group
                         /\ Cardinality({i \in 1..Len(p.content[g].channels) :
                               p.content[g].channels[i] = r.electrode_id}) = 1
             /\ \A g \in 1..Len(p.content) :
                   /\ Len(p.content[g].geometry) = Len(p.content[g].channels)
                   /\ Len(p.content[g].label) = Len(p.content[g].channels)
                   /\ \A i \in 1..Len(p.content[g].channels) :
                         /\ LabelValue(p.content[g].label[i])
                               = p.content[g].channels[i]
                         /\ Coordinates(last.nwb_file_name,
                                        p.content[g].channels[i])
                               = {p.content[g].geometry[i]}

\* a completed write_prb whose descriptor has two groups, one of them with
\* two channels
C12_Witness ==
    /\ last.op = "write_prb"
    /\ last.outcome = "ok"
    /\ last.printed = {}
    /\ \E p \in PrbOf(last.nwb_file_name) :
          /\ Len(p.content) > 1
          /\ \E g \in 1..Len(p.content) : Len(p.content[g].channels) > 1

\* the unit rows and the unit interval lists a call added for its file
NewUnits == Unit \ last.preUnit
NewIntervals == IntervalList \ last.preIntervalList

\* C13: Unit.insert_from_nwbfile on a file with n >= 1 units completes with
\* exactly n new Unit rows of that file, the row of unit i naming the interval
\* list 'unit <i> interval list' that the call inserted; on a file without a
\* units container it reports that and inserts nothing.
C13_UnitsImported ==
    last.op = "Unit.insert_from_nwbfile"
    => /\ (/\ ~last.nwbf.units_is_none
           /\ Len(last.nwbf.units) >= 1
           /\ last.preUnit = {}
           /\ last.preIntervalList = {})
          => /\ last.outcome = "ok"
             /\ Cardinality(NewUnits) = Len(last.nwbf.units)
             /\ \A r \in NewUnits : r.nwb_file_name = last.nwb_file_name
             /\ \A i \in 0..(Len(last.nwbf.units) - 1) :
                   /\ \E r \in NewUnits :
                         r.interval_list_name = <<"unit ", str(i), " interval list">>
                   /\ \E r \in NewIntervals :
                         /\ r.nwb_file_name = last.nwb_file_name
                         /\ r.interval_list_name
                               = <<"unit ", str(i), " interval list">>
       /\ last.nwbf.units_is_none
          => /\ last.printed # {}
             /\ NewUnits = {}
             /\ NewIntervals = {}

\* the electrode and electrode group rows a call of make added
NewElectrodes == Electrode \ last.preElectrode
NewGroups == ElectrodeGroup \ last.preElectrodeGroup

\* C14: every Electrode row that ElectrodeConfig.make inserted has the
\* region_id of the ElectrodeGroup row its electrode_group_name names.
C14_ElectrodeRegion ==
    last.op = "ElectrodeConfig.make"
    => \A e \in NewElectrodes :
          /\ \E g \in ElectrodeGroup :
                /\ g.nwb_file_name = e.nwb_file_name
                /\ g.electrode_group_name = e.electrode_group_name
          /\ \A g \in ElectrodeGroup :
                (/\ g.nwb_file_name = e.nwb_file_name
                 /\ g.electrode_group_name = e.electrode_group_name)
                => e.region_id = g.region_id

\* whether the device of a group has 'probe' in its name
ProbeNamed(device) == \E w \in 1..Len(device.name) : device.name[w] = "probe"

\* C15: an electrode group whose device matches no device with 'probe' in its
\* name is stored by ElectrodeConfig.make with probe_type
\* 'unknown-probe-type', wherever it stands among the groups of the file.
C15_UnknownProbeType ==
    last.op = "ElectrodeConfig.make"
    => \A i \in 1..Len(last.nwbf.electrode_groups) :
          ~ProbeNamed(last.nwbf.electrode_groups[i].device)
          => \A g \in NewGroups :
                g.electrode_group_name = last.nwbf.electrode_groups[i].name
                => g.probe_type = "unknown-probe-type"

====
